---- MODULE Spec2Model ----
(***************************************************************************)
(* Model of quantarhei/qm/corfunctions/correlationfunctions.py:            *)
(* CorrelationFunction (constructor, add, copy, get_temperature and the    *)
(* get_* conversions) and the three Fourier-transformed variants, together *)
(* with the process-wide current energy unit of the units manager.         *)
(*                                                                         *)
(* Floating point samples are kept as formal sums: the real and the        *)
(* imaginary part of a sample are bags of uninterpreted terms, each term   *)
(* naming the closed-form expression and the arguments it was evaluated    *)
(* at.  Adding two samples is bag union.  Exceptions are kept by class.    *)
(***************************************************************************)
EXTENDS Integers, Sequences, FiniteSets, Bags, TLC

VARIABLES cf, current_units, last

vars == <<cf, current_units, last>>

(***************************************************************************)
(* Bounds of the model                                                     *)
(***************************************************************************)
\* longest time axis and longest supplied values array
MaxLen == 3
\* temperatures are drawn from 1..MaxT
MaxT == 2

(***************************************************************************)
(* Values shared by all definitions                                        *)
(***************************************************************************)
\* "no object": the value of a name that is not bound to an object
NoObj == [nil |-> TRUE]
\* an attribute that was never assigned / an argument left at None
None == <<>>
Some(x) == <<x>>

\* a single uninterpreted term as a formal sum
Term(x) == SetToBag({x})
Zero == EmptyBag
Complex(re, im) == [re |-> re, im |-> im]
\* numpy.imag / numpy.real embedded again as complex numbers
OddPart(z) == Complex(Zero, z.im)
EvenPart(z) == Complex(z.re, Zero)

\* class attribute allowed_types
allowed_types ==
    {"OverdampedBrownian-HighTemperature", "OverdampedBrownian", "Value-defined"}

(***************************************************************************)
(* Collaborators outside the file: time axis, units manager, DFunction     *)
(***************************************************************************)
\* TimeAxis(start, length, step): evenly spaced points, their number and maximum
TimeAxis(start, length, step) ==
    [data   |-> [i \in 1..length |-> start + (i - 1) * step],
     length |-> length,
     tmax   |-> start + (length - 1) * step]

\* energy units the manager knows
EnergyUnits == {"int", "1/cm"}
\* one 1/cm expressed in the internal unit of the model
cm2int == 2
\* Manager.iu_energy(val, units): val given in `units`, converted to internal units
iu_energy(val, units) == IF units = "int" THEN val ELSE val * cm2int

\* energy_units(units).__enter__: remember the current unit, switch to `units`
energy_units_enter(units, current) == [backup |-> current, current |-> units]
\* energy_units(units).__exit__: runs on every exit of the block, restores the backup
energy_units_exit(ctx) == ctx.backup

\* kB_intK*T, left uninterpreted
kB_intK_times(T) == <<"kB_intK*T", T>>

\* the lowest array identity not in use
FreshRef(used) == CHOOSE r \in 1..(Cardinality(used) + 1) : r \notin used
\* identity of an array owned by the caller
UserRef == 0

(***************************************************************************)
(* CorrelationFunction.__init__                                            *)
(***************************************************************************)
\* the Matsubara sum of one time point: terms nn = 1..N accumulated into ms
RECURSIVE matsubara(_, _, _, _)
matsubara(kBT, tc, N, t) ==
    IF N <= 0 THEN Zero
    ELSE matsubara(kBT, tc, N - 1, t)
           (+) Term(<<"nu*nn*exp(-nu*nn*t)/((nu*nn)**2-(1/tc)**2)", kBT, tc, N, t>>)

\* cc of the high temperature branch at time t
HighTemperature_cc(lamb, kBT, tc, t) ==
    Complex(Term(<<"2*lamb*kBT*exp(-t/tc)", lamb, kBT, tc, t>>),
            Term(<<"-(lamb/tc)*exp(-t/tc)", lamb, tc, t>>))

\* cc of the general overdamped Brownian branch at time t
OverdampedBrownian_cc(lamb, kBT, tc, N, t) ==
    Complex(Term(<<"(lamb/(tc*tan(1/(2*kBT*tc))))*exp(-t/tc)", lamb, kBT, tc, t>>)
              (+) Term(<<"(4*lamb*kBT/tc)*ms", lamb, kBT, tc, matsubara(kBT, tc, N, t)>>),
            Term(<<"-(lamb/tc)*exp(-t/tc)", lamb, tc, t>>))

\* an exception of class e leaves the constructor: no object is bound
Raised(e) == [outcome |-> e, obj |-> NoObj, sampled |-> FALSE]
Returned(obj) == [outcome |-> "ok", obj |-> obj, sampled |-> TRUE]
IsError(r) == r.outcome # "ok"

\* lines 49-61: the type tag and the defining energy units
ftype_check(params) ==
    IF "ftype" \notin DOMAIN params THEN "Exception"
    ELSE IF params["ftype"] \notin allowed_types THEN "Exception"
    ELSE "ok"

\* lines 63-87: OverdampedBrownian-HighTemperature in the time domain
init_HighTemperature(timeAxis, params, time_domain, energy_units, ref) ==
    IF "T" \notin DOMAIN params THEN Raised("KeyError")
    ELSE IF "cortime" \notin DOMAIN params THEN Raised("KeyError")
    ELSE IF "reorg" \notin DOMAIN params THEN Raised("KeyError")
    ELSE
      LET T    == params["T"]
          tc   == params["cortime"]
          lamb == iu_energy(params["reorg"], energy_units)
          kBT  == kB_intK_times(T)
          t    == timeAxis.data
          cc   == [i \in 1..timeAxis.length |-> HighTemperature_cc(lamb, kBT, tc, t[i])]
      IN Returned([timeAxis |-> timeAxis, params |-> params,
                   time_domain |-> time_domain, is_composed |-> FALSE,
                   ftype |-> params["ftype"], energy_units |-> energy_units,
                   axis |-> Some(timeAxis), data |-> [ref |-> ref, elems |-> cc],
                   lamb |-> lamb, T |-> Some(T), cutoff_time |-> 5 * tc])

\* lines 89-117: OverdampedBrownian, whatever the domain
init_OverdampedBrownian(timeAxis, params, time_domain, energy_units, ref) ==
    IF "T" \notin DOMAIN params THEN Raised("KeyError")
    ELSE IF "cortime" \notin DOMAIN params THEN Raised("KeyError")
    ELSE IF "reorg" \notin DOMAIN params THEN Raised("KeyError")
    ELSE
      LET T    == params["T"]
          tc   == params["cortime"]
          lamb == iu_energy(params["reorg"], energy_units)
          N    == IF "matsubara" \in DOMAIN params THEN params["matsubara"] ELSE 10
          kBT  == kB_intK_times(T)
          t    == timeAxis.data
          cc   == [i \in 1..timeAxis.length |->
                      OverdampedBrownian_cc(lamb, kBT, tc, N, t[i])]
      IN Returned([timeAxis |-> timeAxis, params |-> params,
                   time_domain |-> time_domain, is_composed |-> FALSE,
                   ftype |-> params["ftype"], energy_units |-> energy_units,
                   axis |-> Some(timeAxis), data |-> [ref |-> ref, elems |-> cc],
                   lamb |-> lamb, T |-> Some(T), cutoff_time |-> 5 * tc])

\* faulty variant of init_ValueDefined: accepts any array that is long enough
init_ValueDefined_atleast(timeAxis, params, values, time_domain, energy_units) ==
    IF "reorg" \notin DOMAIN params THEN Raised("KeyError")
    ELSE
      LET lamb == iu_energy(params["reorg"], energy_units)
          tcut == IF "cutoff-time" \in DOMAIN params
                  THEN params["cutoff-time"] ELSE timeAxis.tmax
      IN IF values = None THEN Raised("TypeError")
         ELSE IF Len(values[1].elems) >= timeAxis.length
         THEN Returned([timeAxis |-> timeAxis, params |-> params,
                        time_domain |-> time_domain, is_composed |-> FALSE,
                        ftype |-> params["ftype"], energy_units |-> energy_units,
                        axis |-> None, data |-> values[1],
                        lamb |-> lamb, T |-> None, cutoff_time |-> tcut])
         ELSE Raised("Exception")

\* faulty variant of init_ValueDefined: never reads "cutoff-time"
init_ValueDefined_nocutoff(timeAxis, params, values, time_domain, energy_units) ==
    IF "reorg" \notin DOMAIN params THEN Raised("KeyError")
    ELSE
      LET lamb == iu_energy(params["reorg"], energy_units)
          tcut == timeAxis.tmax
      IN IF values = None THEN Raised("TypeError")
         ELSE IF Len(values[1].elems) = timeAxis.length
         THEN Returned([timeAxis |-> timeAxis, params |-> params,
                        time_domain |-> time_domain, is_composed |-> FALSE,
                        ftype |-> params["ftype"], energy_units |-> energy_units,
                        axis |-> None, data |-> values[1],
                        lamb |-> lamb, T |-> None, cutoff_time |-> tcut])
         ELSE Raised("Exception")

\* lines 119-133: Value-defined in the time domain; values is None or the caller's array
init_ValueDefined(timeAxis, params, values, time_domain, energy_units) ==
    IF "reorg" \notin DOMAIN params THEN Raised("KeyError")
    ELSE
      LET lamb == iu_energy(params["reorg"], energy_units)
          tcut == IF "cutoff-time" \in DOMAIN params
                  THEN params["cutoff-time"] ELSE timeAxis.tmax
      IN IF values = None THEN Raised("TypeError")
         ELSE IF Len(values[1].elems) = timeAxis.length
         THEN Returned([timeAxis |-> timeAxis, params |-> params,
                        time_domain |-> time_domain, is_composed |-> FALSE,
                        ftype |-> params["ftype"], energy_units |-> energy_units,
                        axis |-> None, data |-> values[1],
                        lamb |-> lamb, T |-> None, cutoff_time |-> tcut])
         ELSE Raised("Exception")

\* faulty variant of CorrelationFunction_init: a missing or unknown type tag falls
\* back to the general overdamped Brownian oscillator instead of raising
CorrelationFunction_init_fallback(timeAxis, params, values, domain, current, ref) ==
    LET time_domain == (domain = "Time")
        tagged == IF ftype_check(params) # "ok"
                  THEN [k \in DOMAIN params \cup {"ftype"} |->
                          IF k = "ftype" THEN "OverdampedBrownian" ELSE params[k]]
                  ELSE params
        ftype == tagged["ftype"]
        energy_units == current
    IN IF ftype = "OverdampedBrownian-HighTemperature" /\ time_domain
       THEN init_HighTemperature(timeAxis, tagged, time_domain, energy_units, ref)
       ELSE IF ftype = "OverdampedBrownian"
       THEN init_OverdampedBrownian(timeAxis, tagged, time_domain, energy_units, ref)
       ELSE IF ftype = "Value-defined" /\ time_domain
       THEN init_ValueDefined(timeAxis, tagged, values, time_domain, energy_units)
       ELSE Raised("Exception")

\* CorrelationFunction(timeAxis, params, values, domain) with the manager's current
\* energy unit `current` and `ref` the identity of the array numpy would allocate
CorrelationFunction_init(timeAxis, params, values, domain, current, ref) ==
    LET time_domain == (domain = "Time")
    IN IF ftype_check(params) # "ok" THEN Raised(ftype_check(params))
       ELSE LET ftype == params["ftype"]
                energy_units == current
            IN IF ftype = "OverdampedBrownian-HighTemperature" /\ time_domain
               THEN init_HighTemperature(timeAxis, params, time_domain, energy_units, ref)
               ELSE IF ftype = "OverdampedBrownian"
               THEN init_OverdampedBrownian(timeAxis, params, time_domain, energy_units, ref)
               ELSE IF ftype = "Value-defined" /\ time_domain
               THEN init_ValueDefined(timeAxis, params, values, time_domain, energy_units)
               ELSE Raised("Exception")

(***************************************************************************)
(* Inputs                                                                  *)
(***************************************************************************)
Grids == {TimeAxis(0, n, 1) : n \in 2..MaxLen}
Domains == {"Time", "Frequency"}

\* a key that is present with one of the values vs, or absent
Opt(k, vs) == {<<>>} \cup {k :> v : v \in vs}

\* the keys every type reads, present or absent
CommonParams ==
    {a @@ b @@ c : a \in Opt("T", 1..MaxT), b \in Opt("cortime", {2}),
                   c \in Opt("reorg", {3})}

\* parameter sets: any type tag or none, any of the required keys missing, and the
\* optional key of the type present or absent
ParamSets ==
    {p : p \in CommonParams}
    \cup {("ftype" :> f) @@ p :
            f \in {"OverdampedBrownian-HighTemperature", "Lorentzian"}, p \in CommonParams}
    \cup {("ftype" :> "OverdampedBrownian") @@ p @@ m :
            p \in CommonParams, m \in Opt("matsubara", {1})}
    \cup {("ftype" :> "Value-defined") @@ p @@ c :
            p \in CommonParams, c \in Opt("cutoff-time", {7})}

\* the caller's array of n complex numbers
UserValues(n) == [ref |-> UserRef,
                  elems |-> [i \in 1..n |-> Complex(Term(<<"re", i>>), Term(<<"im", i>>))]]
ValuesArgs == {None} \cup {Some(UserValues(n)) : n \in 1..MaxLen}


(***************************************************************************)
(* Methods of CorrelationFunction                                          *)
(***************************************************************************)
\* the attributes an instance answers to: those __init__ assigned, and the
\* attributes of the classes CorrelationFunction, DFunction and UnitsManaged
ClassAttributes == {"allowed_types", "manager"}
\* T and axis are assigned on some branches of __init__ only
Attributes(obj) ==
    {k \in DOMAIN obj : k \in {"T", "axis"} => obj[k] # None} \cup ClassAttributes

\* get_temperature: self.T, which the Value-defined branch never assigns
get_temperature(self) ==
    IF "T" \notin Attributes(self)
    THEN [outcome |-> "AttributeError", self |-> self, result |-> None]
    ELSE [outcome |-> "ok", self |-> self, result |-> self.T]

\* self.data += cf.data: in place, element by element
iadd(data, other) ==
    [data EXCEPT !.elems =
        [i \in DOMAIN data.elems |->
            Complex(data.elems[i].re (+) other.elems[i].re,
                    data.elems[i].im (+) other.elems[i].im)]]

\* add(self, cf): the condition reads cf.self.timeAxis before anything is changed
add(self, other) ==
    IF "self" \notin Attributes(other)
    THEN [outcome |-> "AttributeError", self |-> self, cf |-> other]
    ELSE IF "T" \notin Attributes(self) \/ "T" \notin Attributes(other)
    THEN [outcome |-> "AttributeError", self |-> self, cf |-> other]
    ELSE IF self.timeAxis = other["self"].timeAxis /\ self.T = other.T
    THEN [outcome |-> "ok",
          self |-> [self EXCEPT
                      !.lamb = self.lamb + other.lamb,
                      !.data = iadd(self.data, other.data),
                      !.cutoff_time = IF self.cutoff_time < other.cutoff_time
                                      THEN other.cutoff_time ELSE self.cutoff_time,
                      !.is_composed = TRUE],
          cf |-> other]
    ELSE [outcome |-> "Exception", self |-> self, cf |-> other]

\* copy: the constructor again, on the stored axis and params, values left at None
copy(self, current, ref) ==
    LET r == CorrelationFunction_init(self.timeAxis, self.params, None, "Time",
                                      current, ref)
    IN [outcome |-> r.outcome, self |-> self, result |-> r.obj]

(***************************************************************************)
(* FTCorrelationFunction, OddFTCorrelationFunction, EvenFTCorrelationFunction *)
(***************************************************************************)
\* what the constructor does to the samples of the function it has just built
Symmetrized(kind, elems) ==
    IF kind = "Odd" THEN [i \in DOMAIN elems |-> OddPart(elems[i])]
    ELSE IF kind = "Even" THEN [i \in DOMAIN elems |-> EvenPart(elems[i])]
    ELSE elems

\* DFunction.get_Fourier_transform: samples and axis of the transform, uninterpreted
get_Fourier_transform(axis, elems, ref) ==
    [axis |-> <<"FrequencyAxis", axis>>,
     data |-> [ref |-> ref, elems |-> <<"FT", elems>>]]

FTFailed(e, current) ==
    [outcome |-> e, obj |-> NoObj, current |-> current, sampled |-> FALSE]

\* faulty variant of FT_init: the unit is set and reset by hand around
\* get_Fourier_transform, so an exception leaves the block without the reset
FT_init_norestore(kind, axis, params, current, used, ext) ==
    IF ftype_check(params) # "ok" THEN FTFailed(ftype_check(params), current)
    ELSE
      LET energy_units == current
          ctx1 == energy_units_enter(energy_units, current)
          r    == CorrelationFunction_init(axis, params, None, "Time",
                                           ctx1.current, FreshRef(used))
          out1 == energy_units_exit(ctx1)
      IN IF IsError(r) THEN FTFailed(r.outcome, out1)
         ELSE
           LET data == Symmetrized(kind, r.obj.data.elems)
               ctx2 == energy_units_enter("int", out1)
               out2 == energy_units_exit(ctx2)
               ftvals == get_Fourier_transform(axis, data,
                            FreshRef(used \cup {r.obj.data.ref}))
           IN IF ext = "raise"
              THEN [outcome |-> "Exception", obj |-> NoObj, current |-> ctx2.current,
                    sampled |-> TRUE]
              ELSE [outcome |-> "ok",
                    obj |-> [ftype |-> params["ftype"], energy_units |-> energy_units,
                             params |-> params, data |-> ftvals.data,
                             axis |-> ftvals.axis, frequencyAxis |-> ftvals.axis],
                    current |-> out2, sampled |-> TRUE]

\* the constructor of the variant `kind` on (axis, params); `current` is the
\* manager's energy unit at the call, `used` the arrays alive, `ext` tells whether
\* get_Fourier_transform raises.  `current` of the result is the unit at exit.
FT_init(kind, axis, params, current, used, ext) ==
    IF ftype_check(params) # "ok" THEN FTFailed(ftype_check(params), current)
    ELSE
      LET energy_units == current
          ctx1 == energy_units_enter(energy_units, current)
          r    == CorrelationFunction_init(axis, params, None, "Time",
                                           ctx1.current, FreshRef(used))
          out1 == energy_units_exit(ctx1)
      IN IF IsError(r) THEN FTFailed(r.outcome, out1)
         ELSE
           LET data == Symmetrized(kind, r.obj.data.elems)
               ctx2 == energy_units_enter("int", out1)
               out2 == energy_units_exit(ctx2)
               ftvals == get_Fourier_transform(axis, data,
                            FreshRef(used \cup {r.obj.data.ref}))
           IN IF ext = "raise"
              THEN [outcome |-> "Exception", obj |-> NoObj, current |-> out2,
                    sampled |-> TRUE]
              ELSE [outcome |-> "ok",
                    obj |-> [ftype |-> params["ftype"], energy_units |-> energy_units,
                             params |-> params, data |-> ftvals.data,
                             axis |-> ftvals.axis, frequencyAxis |-> ftvals.axis],
                    current |-> out2, sampled |-> TRUE]

FTCorrelationFunction_init(axis, params, current, used, ext) ==
    FT_init("Full", axis, params, current, used, ext)
OddFTCorrelationFunction_init(axis, params, current, used, ext) ==
    FT_init("Odd", axis, params, current, used, ext)
EvenFTCorrelationFunction_init(axis, params, current, used, ext) ==
    FT_init("Even", axis, params, current, used, ext)

VariantInit(kind, axis, params, current, used, ext) ==
    IF kind = "Odd" THEN OddFTCorrelationFunction_init(axis, params, current, used, ext)
    ELSE IF kind = "Even"
    THEN EvenFTCorrelationFunction_init(axis, params, current, used, ext)
    ELSE FTCorrelationFunction_init(axis, params, current, used, ext)

\* faulty variant of get_FT: the odd or even part is taken of the receiver's own
\* samples before the variant is built
get_FT_inplace(kind, self, current, ext) ==
    LET ctx == energy_units_enter(self.energy_units, current)
        out == energy_units_exit(ctx)
        sym == [self EXCEPT !.data.elems = Symmetrized(kind, @)]
    IN IF "axis" \notin Attributes(self)
       THEN [outcome |-> "AttributeError", self |-> self, result |-> NoObj,
             current |-> out]
       ELSE LET r == VariantInit(kind, self.axis[1], self.params, ctx.current,
                                 {self.data.ref}, ext)
            IN [outcome |-> r.outcome, self |-> sym, result |-> r.obj,
                current |-> energy_units_exit([ctx EXCEPT !.current = r.current])]

\* get_FTCorrelationFunction, get_OddFTCorrelationFunction and
\* get_EvenFTCorrelationFunction: the variant built on (self.axis, self.params)
\* inside a block that switches to the units the function was defined in
get_FT(kind, self, current, ext) ==
    LET ctx == energy_units_enter(self.energy_units, current)
        out == energy_units_exit(ctx)
    IN IF "axis" \notin Attributes(self)
       THEN [outcome |-> "AttributeError", self |-> self, result |-> NoObj,
             current |-> out]
       ELSE LET r == VariantInit(kind, self.axis[1], self.params, ctx.current,
                                 {self.data.ref}, ext)
            IN [outcome |-> r.outcome, self |-> self, result |-> r.obj,
                current |-> energy_units_exit([ctx EXCEPT !.current = r.current])]

\* get_SpectralDensity: the frequency axis in internal units, then SpectralDensity
\* in the defining units; ext names the outside call that raises, if any
get_SpectralDensity(self, current, ext) ==
    LET ctx1 == energy_units_enter("int", current)
        out1 == energy_units_exit(ctx1)
        wa   == <<"FrequencyAxis", self.timeAxis>>
        ctx2 == energy_units_enter(self.energy_units, out1)
        out2 == energy_units_exit(ctx2)
    IN IF ext = "get_FrequencyAxis"
       THEN [outcome |-> "Exception", self |-> self, result |-> NoObj, current |-> out1]
       ELSE IF ext = "SpectralDensity"
       THEN [outcome |-> "Exception", self |-> self, result |-> NoObj, current |-> out2]
       ELSE [outcome |-> "ok", self |-> self,
             result |-> [axis |-> wa, params |-> self.params,
                         energy_units |-> ctx2.current],
             current |-> out2]

(***************************************************************************)
(* State machine: one name cf bound to a CorrelationFunction or to nothing, *)
(* the manager's current energy unit, and a record of the last call.       *)
(***************************************************************************)
Kinds == {"Full", "Odd", "Even"}

Idle == [op |-> "none", self |-> NoObj, axis |-> NoObj, params |-> <<>>,
         values |-> None, domain |-> "Time", other |-> NoObj, other_after |-> NoObj,
         kind |-> "Full", ext |-> "none", units_before |-> "int",
         outcome |-> "ok", result |-> NoObj, sampled |-> FALSE]

Init ==
    /\ cf = NoObj
    /\ current_units = "int"
    /\ last = Idle

\* the array numpy allocates for cf, and the one it allocates for a second function
FirstRef == FreshRef({UserRef})
SecondRef == FreshRef({UserRef, FirstRef})

\* the caller makes a call once it is done with the outcome of the call before
Ready == last = Idle

\* the caller drops the outcome and the result of the last call
Drop ==
    /\ last # Idle
    /\ last' = Idle
    /\ UNCHANGED <<cf, current_units>>

\* cf = CorrelationFunction(timeAxis, params, values, domain)
New(timeAxis, params, values, domain) ==
    /\ Ready
    /\ cf = NoObj
    /\ LET r == CorrelationFunction_init(timeAxis, params, values, domain,
                                         current_units, FirstRef)
       IN /\ cf' = r.obj
          /\ last' = [Idle EXCEPT !.op = "init", !.axis = timeAxis, !.params = params,
                                  !.values = values, !.domain = domain,
                                  !.units_before = current_units,
                                  !.outcome = r.outcome, !.result = r.obj,
                                  !.sampled = r.sampled]
    /\ UNCHANGED current_units

\* del cf
Discard ==
    /\ Ready
    /\ cf # NoObj
    /\ cf' = NoObj
    /\ last' = Idle
    /\ UNCHANGED current_units

\* Manager.set_current_units("energy", u), by the caller
SetCurrentUnits(u) ==
    /\ Ready
    /\ u # current_units
    /\ current_units' = u
    /\ last' = Idle
    /\ UNCHANGED cf

\* the correlation functions a caller can hold as the argument of add: whatever
\* the constructor returns in the time domain under the energy unit u, built after cf
OperandsUnder ==
    [u \in EnergyUnits |->
       {r.obj : r \in {rr \in {CorrelationFunction_init(g, p, v, "Time", u, SecondRef) :
                                  g \in Grids, p \in ParamSets, v \in ValuesArgs} :
                          rr.outcome = "ok"}}]
Operands(u) == OperandsUnder[u]

\* cf.add(b)
Add(b) ==
    /\ Ready
    /\ cf # NoObj
    /\ LET r == add(cf, b)
       IN /\ cf' = r.self
          /\ last' = [Idle EXCEPT !.op = "add", !.self = cf, !.other = b,
                                  !.other_after = r.cf,
                                  !.units_before = current_units,
                                  !.outcome = r.outcome]
    /\ UNCHANGED current_units

\* c = cf.copy()
Copy ==
    /\ Ready
    /\ cf # NoObj
    /\ LET r == copy(cf, current_units, FreshRef({UserRef, cf.data.ref}))
       IN /\ cf' = r.self
          /\ last' = [Idle EXCEPT !.op = "copy", !.self = cf,
                                  !.units_before = current_units,
                                  !.outcome = r.outcome, !.result = r.result]
    /\ UNCHANGED current_units

\* cf.get_temperature()
GetTemperature ==
    /\ Ready
    /\ cf # NoObj
    /\ LET r == get_temperature(cf)
       IN /\ cf' = r.self
          /\ last' = [Idle EXCEPT !.op = "get_temperature", !.self = cf,
                                  !.units_before = current_units,
                                  !.outcome = r.outcome]
    /\ UNCHANGED current_units

\* cf.get_SpectralDensity()
GetSpectralDensity(ext) ==
    /\ Ready
    /\ cf # NoObj
    /\ LET r == get_SpectralDensity(cf, current_units, ext)
       IN /\ cf' = r.self
          /\ current_units' = r.current
          /\ last' = [Idle EXCEPT !.op = "get_SpectralDensity", !.self = cf,
                                  !.ext = ext, !.units_before = current_units,
                                  !.outcome = r.outcome, !.result = r.result]

\* cf.get_FTCorrelationFunction(), get_OddFT..., get_EvenFT...
GetFT(kind, ext) ==
    /\ Ready
    /\ cf # NoObj
    /\ LET r == get_FT(kind, cf, current_units, ext)
       IN /\ cf' = r.self
          /\ current_units' = r.current
          /\ last' = [Idle EXCEPT !.op = "get_FT", !.self = cf, !.kind = kind,
                                  !.ext = ext, !.units_before = current_units,
                                  !.outcome = r.outcome, !.result = r.result]

\* FTCorrelationFunction(axis, params) and its odd and even variants, called directly
\* by a caller that holds no correlation function
NewFT(kind, axis, params, ext) ==
    LET r == VariantInit(kind, axis, params, current_units, {UserRef}, ext)
    IN /\ Ready
       /\ cf = NoObj
       /\ current_units' = r.current
       /\ last' = [Idle EXCEPT !.op = "init_FT", !.self = cf, !.kind = kind,
                               !.axis = axis, !.params = params, !.ext = ext,
                               !.units_before = current_units,
                               !.outcome = r.outcome, !.result = r.obj,
                               !.sampled = r.sampled]
       /\ UNCHANGED cf

Next ==
    \/ \E g \in Grids, p \in ParamSets, v \in ValuesArgs, d \in Domains : New(g, p, v, d)
    \/ Drop
    \/ Discard
    \/ \E u \in EnergyUnits : SetCurrentUnits(u)
    \/ \E b \in Operands(current_units) : Add(b)
    \/ Copy
    \/ GetTemperature
    \/ \E e \in {"none", "get_FrequencyAxis", "SpectralDensity"} : GetSpectralDensity(e)
    \/ \E k \in Kinds, e \in {"none", "raise"} : GetFT(k, e)
    \/ \E k \in Kinds, g \in Grids, p \in ParamSets, e \in {"none", "raise"} :
          NewFT(k, g, p, e)

Spec == Init /\ [][Next]_vars


(***************************************************************************)
(* Properties                                                              *)
(***************************************************************************)
HasKey(params, k) == k \in DOMAIN params
BadFtype(params) == ~HasKey(params, "ftype") \/ params["ftype"] \notin allowed_types
IsType(params, f) == HasKey(params, "ftype") /\ params["ftype"] = f
Max(S) == CHOOSE m \in S : \A x \in S : x <= m
Range(f) == {f[i] : i \in DOMAIN f}

\* C1: a constructor of CorrelationFunction or of one of the three Fourier
\* variants, given params without ftype or with an ftype outside allowed_types,
\* raises: no samples have been computed and no object is bound.
C1_UnknownTypeRaises ==
    (last.op \in {"init", "init_FT"} /\ BadFtype(last.params))
        => /\ last.outcome # "ok"
           /\ last.result = NoObj
           /\ ~last.sampled
           /\ cf = NoObj

C1_Witness ==
    /\ last.op = "init_FT"
    /\ last.kind = "Odd"
    /\ IsType(last.params, "Lorentzian")
    /\ last.outcome = "Exception"

\* C2: a.add(b) on the same time axis with equal temperatures succeeds; a's
\* reorganization energy and samples are the sums, its cutoff time the larger of
\* the two, is_composed is set, and b is as before.
Compatible(a, b) ==
    /\ a.timeAxis = b.timeAxis
    /\ a.T # None /\ b.T # None /\ a.T = b.T

C2_AddAccumulates ==
    (last.op = "add" /\ Compatible(last.self, last.other))
        => /\ last.outcome = "ok"
           /\ cf.lamb = last.self.lamb + last.other.lamb
           /\ \A i \in DOMAIN cf.data.elems :
                /\ cf.data.elems[i].re
                     = last.self.data.elems[i].re (+) last.other.data.elems[i].re
                /\ cf.data.elems[i].im
                     = last.self.data.elems[i].im (+) last.other.data.elems[i].im
           /\ cf.cutoff_time = Max({last.self.cutoff_time, last.other.cutoff_time})
           /\ cf.is_composed
           /\ last.other_after = last.other

\* C3: a.add(b) with different temperatures or different time axes raises the
\* exception of the else branch of add, and a is exactly as before the call.
C3_IncompatibleAddRaises ==
    (/\ last.op = "add"
     /\ last.self.T # None /\ last.other.T # None
     /\ (last.self.T # last.other.T \/ last.self.timeAxis # last.other.timeAxis))
        => /\ last.outcome = "Exception"
           /\ cf = last.self

\* C4: a Value-defined construction with a supplied array raises whenever the
\* array's length differs from the axis' length (with "Incompatible values" when
\* nothing else is wrong with the call) and binds no object; with equal lengths
\* it succeeds and the samples are the supplied array.
C4_ShapeMismatch ==
    (last.op = "init" /\ IsType(last.params, "Value-defined") /\ last.values # None)
        => LET n  == Len(last.values[1].elems)
               ok == HasKey(last.params, "reorg") /\ last.domain = "Time"
           IN /\ n # last.axis.length
                   => /\ last.outcome # "ok"
                      /\ last.result = NoObj
                      /\ cf = NoObj
                      /\ ok => last.outcome = "Exception"
              /\ (n = last.axis.length /\ ok)
                   => /\ last.outcome = "ok"
                      /\ cf = last.result
                      /\ cf.data = last.values[1]

C4_Witness ==
    /\ last.op = "init"
    /\ IsType(last.params, "Value-defined")
    /\ last.values # None
    /\ HasKey(last.params, "reorg")
    /\ last.domain = "Time"
    /\ Len(last.values[1].elems) > last.axis.length
    /\ last.outcome = "Exception"

\* C5: for every allowed ftype, a construction whose params lack T, cortime or
\* reorg raises and binds no object.
RequiredParams == {"T", "cortime", "reorg"}

C5_MissingRequiredRaises ==
    (/\ last.op = "init"
     /\ ~BadFtype(last.params)
     /\ ~(RequiredParams \subseteq DOMAIN last.params))
        => /\ last.outcome # "ok"
           /\ last.result = NoObj

\* C6: copy() of any constructed CorrelationFunction succeeds and returns another
\* object on the same axis and params whose sample array is not the receiver's.
C6_CopySucceeds ==
    last.op = "copy"
        => /\ last.outcome = "ok"
           /\ last.result # NoObj
           /\ last.result.timeAxis = last.self.timeAxis
           /\ last.result.params = last.self.params
           /\ last.result.data.ref # last.self.data.ref

\* C7: after a constructor of a Fourier variant or a get_* conversion, whether it
\* returned or raised, the manager's current energy unit is the one before the call.
C7_UnitsRestored ==
    last.op \in {"init_FT", "get_SpectralDensity", "get_FT"}
        => current_units = last.units_before

C7_Witness ==
    /\ last.op = "init_FT"
    /\ last.ext = "raise"
    /\ last.sampled
    /\ last.outcome = "Exception"
    /\ last.units_before = "1/cm"
    /\ current_units = "1/cm"

\* C8: ftype never changes while the function lives, and copy, get_temperature,
\* get_SpectralDensity and the three get_*FTCorrelationFunction leave samples,
\* reorganization energy, temperature, cutoff time and is_composed as they were.
FrameOps == {"copy", "get_temperature", "get_SpectralDensity", "get_FT"}

C8_OnlyAddMutates ==
    [][/\ (cf # NoObj /\ cf' # NoObj) => cf'.ftype = cf.ftype
       /\ last'.op \in FrameOps
            => /\ cf'.data = cf.data
               /\ cf'.lamb = cf.lamb
               /\ cf'.T = cf.T
               /\ cf'.cutoff_time = cf.cutoff_time
               /\ cf'.is_composed = cf.is_composed]_vars

C8_Witness ==
    /\ last.op = "get_FT"
    /\ last.kind = "Odd"
    /\ last.outcome = "ok"
    /\ cf = last.self
    /\ \E i \in DOMAIN cf.data.elems : cf.data.elems[i].re # Zero

\* C9: a construction with a domain other than 'Time' raises for every allowed
\* ftype, so no constructed CorrelationFunction has time_domain = false.
C9_TimeDomainOnly ==
    /\ (last.op = "init" /\ last.domain # "Time") => last.outcome # "ok"
    /\ cf # NoObj => cf.time_domain

\* C10: a freshly constructed function has cutoff time 5*cortime for the two
\* analytic types; for Value-defined it is params["cutoff-time"] when present and
\* the largest point of the time axis otherwise.
C10_CutoffTime ==
    (last.op = "init" /\ last.outcome = "ok")
        => /\ cf.ftype \in {"OverdampedBrownian-HighTemperature", "OverdampedBrownian"}
                => cf.cutoff_time = 5 * last.params["cortime"]
           /\ cf.ftype = "Value-defined"
                => cf.cutoff_time = IF HasKey(last.params, "cutoff-time")
                                    THEN last.params["cutoff-time"]
                                    ELSE Max(Range(last.axis.data))

C10_Witness ==
    /\ last.op = "init"
    /\ last.outcome = "ok"
    /\ cf.ftype = "Value-defined"
    /\ HasKey(last.params, "cutoff-time")
    /\ cf.cutoff_time = last.params["cutoff-time"]
    /\ cf.cutoff_time # last.axis.tmax

====
